---- MODULE Spec2Model ----
(***************************************************************************)
(* Model of the Shopify order -> invoice pipeline:                         *)
(*   src/generador_facturas.py  class ShopifyInvoiceGenerator              *)
(*   src/app.py                 the /webhook handler                       *)
(*                                                                         *)
(* Python values: a dict is a TLA+ function whose DOMAIN is the set of its *)
(* keys, so d[k] on a missing key is a KeyError and d.get(k, default) is   *)
(* Get(d, k, default).  Money amounts are integers in hundredths of a peso *)
(* (Shopify sends "12345.50"); the float the code builds from them is      *)
(* exact enough that ':,.0f' rounds as RoundHalfEven does.                 *)
(* A call that can end in several ways (the network, the disk) is an       *)
(* operator yielding the SET of its possible outcomes; an action picks one.*)
(***************************************************************************)
EXTENDS Integers, Sequences, FiniteSets, TLC

VARIABLES
    office_config,  \* self.office_config of the long-lived generator
    disk,           \* the files of the working directory: path -> document
    now,            \* the wall clock: [day |-> days after StartDate, sec |-> second of the day]
    last            \* the last call made: its arguments, what it did, what it gave back

vars == <<office_config, disk, now, last>>

\* ------------------------------------------------------------------ bounds

\* How many seconds the clock may advance in Spec.
MaxTicks == 1

\* ------------------------------------------------------------- Python values

\* None, where the other values of the place are strings.
None == "<None>"

\* None, where the other values of the place are dicts.
NoneDict == [py_none |-> TRUE]

\* bool(v) for v a string or None.
Truthy(v) == v \notin {None, ""}

\* bool(d) for d a dict or None: an empty dict and None are falsy.
TruthyDict(d) == d # NoneDict /\ DOMAIN d # {}

\* d.get(k, default)
Get(d, k, default) == IF k \in DOMAIN d THEN d[k] ELSE default

EmptyDict == [k \in {} |-> None]

\* Exception classes and their bases (the classes an except clause may name).
Bases(cls) ==
    CASE cls = "HTTPError" -> {"HTTPError", "RequestException", "OSError", "Exception"}
      [] cls = "ConnectionError" -> {"ConnectionError", "RequestException", "OSError", "Exception"}
      [] cls = "FileNotFoundError" -> {"FileNotFoundError", "OSError", "Exception"}
      [] cls = "PermissionError" -> {"PermissionError", "OSError", "Exception"}
      [] cls = "KeyError" -> {"KeyError", "LookupError", "Exception"}
      [] cls = "TypeError" -> {"TypeError", "Exception"}
      [] OTHER -> {cls, "Exception"}

\* Whether "except <handler>" catches exception e.
Catches(handler, e) == handler \in Bases(e.cls)

Exc(cls, msg) == [cls |-> cls, msg |-> msg]

\* One entry of a call's log: a stage it went through, whether the stage
\* succeeded, and the path, token, url or error message the stage is about.
Ev(stage, ok, info) == [stage |-> stage, ok |-> ok, info |-> info]

\* --------------------------------------------------------------- the clock

StartDate == [y |-> 2024, m |-> 1, d |-> 31]

IsLeap(y) == (y % 4 = 0 /\ y % 100 # 0) \/ y % 400 = 0

DaysInMonth(y, m) ==
    IF m = 2 THEN (IF IsLeap(y) THEN 29 ELSE 28)
    ELSE IF m \in {4, 6, 9, 11} THEN 30 ELSE 31

\* datetime's _days_before_year
DaysBeforeYear(y) ==
    (y - 1) * 365 + (y - 1) \div 4 - (y - 1) \div 100 + (y - 1) \div 400

RECURSIVE DaysBeforeMonth(_, _)
\* datetime's _days_before_month
DaysBeforeMonth(y, m) ==
    IF m = 1 THEN 0 ELSE DaysBeforeMonth(y, m - 1) + DaysInMonth(y, m - 1)

\* date.toordinal(): 1 for 0001-01-01
ToOrdinal(dt) == DaysBeforeYear(dt.y) + DaysBeforeMonth(dt.y, dt.m) + dt.d

\* date.fromordinal(n)
FromOrdinal(n) ==
    LET y == CHOOSE yy \in (n \div 366)..(n \div 365 + 1) :
                 DaysBeforeYear(yy) < n /\ n <= DaysBeforeYear(yy + 1)
        r == n - DaysBeforeYear(y)
        m == CHOOSE mm \in 1..12 :
                 DaysBeforeMonth(y, mm) < r /\ r <= DaysBeforeMonth(y, mm) + DaysInMonth(y, mm)
    IN  [y |-> y, m |-> m, d |-> r - DaysBeforeMonth(y, m)]

\* date + timedelta(days=n)
AddDays(dt, n) == FromOrdinal(ToOrdinal(dt) + n)

\* datetime.now() as a calendar date.
Today(t) == AddDays(StartDate, t.day)

\* int(datetime.now().timestamp()); StartDate 00:00 UTC is 1706659200.
Timestamp(t) == 1706659200 + t.day * 86400 + t.sec

\* ------------------------------------------------------------ the formatter

Pad2(n) == IF n < 10 THEN "0" \o ToString(n) ELSE ToString(n)

Pad3(n) == IF n < 10 THEN "00" \o ToString(n)
           ELSE IF n < 100 THEN "0" \o ToString(n) ELSE ToString(n)

RECURSIVE Grouped(_)
\* The ',' of a format spec: digits in groups of three.
Grouped(n) == IF n < 1000 THEN ToString(n)
              ELSE Grouped(n \div 1000) \o "," \o Pad3(n % 1000)

\* The '.0f' of a format spec on cents / 100: round half to even.
RoundHalfEven(cents) ==
    LET q == cents \div 100
        r == cents % 100
    IN  IF r < 50 THEN q
        ELSE IF r > 50 THEN q + 1
        ELSE IF q % 2 = 0 THEN q ELSE q + 1

\* format_currency(amount), amount >= 0 given in cents.  The except branch
\* of the code is dead for a float argument.
format_currency(cents) == "$" \o Grouped(RoundHalfEven(cents)) \o " COP"

\* strftime('%d/%m/%Y')
StrfDate(dt) == Pad2(dt.d) \o "/" \o Pad2(dt.m) \o "/" \o ToString(dt.y)

\* A timestamp string is [kind |-> "iso", y, m, d, suffix], standing for
\* "YYYY-MM-DDT10:00:00<suffix>", or [kind |-> "text", text] for any other string.
IsoText(ts) ==
    IF ts.kind = "iso"
    THEN ToString(ts.y) \o "-" \o Pad2(ts.m) \o "-" \o Pad2(ts.d) \o "T10:00:00" \o ts.suffix
    ELSE ts.text

\* Whether datetime.fromisoformat(s.replace('Z', '+00:00')) succeeds.
IsoParses(ts) ==
    /\ ts.kind = "iso"
    /\ ts.m \in 1..12
    /\ ts.d \in 1..DaysInMonth(ts.y, ts.m)

\* format_date(date_string)
format_date(ts) ==
    IF IsoParses(ts) THEN StrfDate([y |-> ts.y, m |-> ts.m, d |-> ts.d])
    ELSE IsoText(ts)

\* ------------------------------------------------- the configuration (app.py)

\* self.company_info as __init__ builds it from app.py's config.
CompanyInfo ==
    [name |-> "CSHOP SAS", address |-> "CRA 34 3-65", phone |-> "+57 3158103812",
     email |-> "info@cshop.co", tax_id |-> "NIT: 901410087-8"]

\* ------------------------------------------------------ create_word_document

\* The first key the code reads with order_data[...] / item[...] that is not
\* there, in the order the code reads them; None when all are present.
RECURSIVE MissingItemKey(_)
MissingItemKey(items) ==
    IF items = <<>> THEN None
    ELSE LET item == Head(items) IN
         IF "title" \notin DOMAIN item THEN "title"
         ELSE IF "quantity" \notin DOMAIN item THEN "quantity"
         ELSE IF "price" \notin DOMAIN item THEN "price"
         ELSE MissingItemKey(Tail(items))

MissingKey(order) ==
    IF "order_number" \notin DOMAIN order THEN "order_number"
    ELSE IF "created_at" \notin DOMAIN order THEN "created_at"
    ELSE IF "line_items" \notin DOMAIN order THEN "line_items"
    ELSE IF MissingItemKey(order.line_items) # None THEN MissingItemKey(order.line_items)
    ELSE IF "subtotal_price" \notin DOMAIN order THEN "subtotal_price"
    ELSE IF "total_price" \notin DOMAIN order THEN "total_price"
    ELSE None

\* The left cell of the header band.
CompanyLines(company) ==
    <<company.name, company.address, "Tel: " \o company.phone,
      "Email: " \o company.email, company.tax_id>>

\* A due date counted from the order's creation date instead of the clock.
DueDateFromCreated(order, t) ==
    IF IsoParses(order.created_at)
    THEN StrfDate(AddDays([y |-> order.created_at.y, m |-> order.created_at.m,
                           d |-> order.created_at.d], 30))
    ELSE StrfDate(AddDays(Today(t), 30))

\* (datetime.now() + timedelta(days=30)).strftime('%d/%m/%Y')
DueDate(order, t) == StrfDate(AddDays(Today(t), 30))

\* The right cell of the header band.
InvoiceInfo(order, t) ==
    <<"FACTURA",
      "No. Orden: " \o order.order_number,
      "Fecha: " \o format_date(order.created_at),
      "Vencimiento: " \o DueDate(order, t)>>

\* The FACTURAR A cell.
BillTo(order) ==
    LET customer == Get(order, "customer", EmptyDict) IN
    <<"FACTURAR A:">> \o
    (IF TruthyDict(customer)
     THEN <<Get(customer, "first_name", "") \o " " \o Get(customer, "last_name", ""),
            Get(customer, "email", "")>>
          \o (IF Truthy(Get(customer, "phone", None)) THEN <<customer.phone>> ELSE <<>>)
     ELSE <<>>)

NoShippingText == "Información de envío no disponible"

\* The ENVIAR A cell.
ShipTo(order) ==
    LET sa == Get(order, "shipping_address", NoneDict) IN
    <<"ENVIAR A:">> \o
    (IF TruthyDict(sa)
     THEN <<Get(sa, "first_name", "") \o " " \o Get(sa, "last_name", ""),
            Get(sa, "address1", "")>>
          \o (IF Truthy(Get(sa, "address2", None)) THEN <<sa.address2>> ELSE <<>>)
          \o <<Get(sa, "city", "") \o ", " \o Get(sa, "province", ""),
               Get(sa, "zip", "") \o " - " \o Get(sa, "country", "")>>
     ELSE <<NoShippingText>>)

ItemRow(item) ==
    <<item.title \o (IF Truthy(Get(item, "variant_title", None))
                     THEN "\n" \o item.variant_title ELSE ""),
      Get(item, "sku", "N/A"),
      ToString(item.quantity),
      format_currency(item.price),
      format_currency(item.price * item.quantity)>>

\* The product table: the header row, then one row per line item.
ItemsTable(order) ==
    <<  <<"Producto", "SKU", "Cantidad", "Precio Unit.", "Total">>  >>
    \o [i \in 1..Len(order.line_items) |-> ItemRow(order.line_items[i])]

\* order_data.get('total_shipping_price_set', {}).get('shop_money', {}).get('amount', 0)
ShippingAmount(order) ==
    Get(Get(Get(order, "total_shipping_price_set", EmptyDict),
            "shop_money", EmptyDict),
        "amount", 0)

\* A totals block whose TOTAL is added up from the other three amounts.
TotalsBlockRecomputed(order) ==
    LET subtotal == order.subtotal_price
        taxes == Get(order, "total_tax", 0)
        shipping == ShippingAmount(order)
        total == subtotal + taxes + shipping
    IN  <<"", "Subtotal: " \o format_currency(subtotal)>>
        \o (IF shipping > 0 THEN <<"Envío: " \o format_currency(shipping)>> ELSE <<>>)
        \o (IF taxes > 0 THEN <<"Impuestos: " \o format_currency(taxes)>> ELSE <<>>)
        \o <<"TOTAL: " \o format_currency(total)>>

\* The paragraphs of the totals cell; the first is the cell's own empty paragraph.
TotalsBlock(order) ==
    LET subtotal == order.subtotal_price
        taxes == Get(order, "total_tax", 0)
        shipping == ShippingAmount(order)
        total == order.total_price
    IN  <<"", "Subtotal: " \o format_currency(subtotal)>>
        \o (IF shipping > 0 THEN <<"Envío: " \o format_currency(shipping)>> ELSE <<>>)
        \o (IF taxes > 0 THEN <<"Impuestos: " \o format_currency(taxes)>> ELSE <<>>)
        \o <<"TOTAL: " \o format_currency(total)>>

Footer(company) ==
    <<"Gracias por su compra | " \o company.name,
      "Esta es una factura generada automáticamente">>

\* The document the code builds, section by section.
BuildDocument(company, order, t) ==
    [company |-> CompanyLines(company),
     invoice |-> InvoiceInfo(order, t),
     bill_to |-> BillTo(order),
     ship_to |-> ShipTo(order),
     items |-> ItemsTable(order),
     totals |-> TotalsBlock(order),
     footer |-> Footer(company)]

\* What doc.save(filepath) may do: write the file, or fail on the file system.
SaveOutcomes == {"saved", "PermissionError"}

\* create_word_document(order_data, filename) at time t on disk dk: the set of
\* its possible outcomes.  Every exception is printed and raised again.
create_word_document(company, dk, t, order, filename) ==
    LET filepath == filename \o ".docx" IN
    IF MissingKey(order) # None
    THEN {[ok |-> FALSE, exc |-> Exc("KeyError", "'" \o MissingKey(order) \o "'"),
           disk |-> dk, log |-> <<Ev("render", FALSE, "'" \o MissingKey(order) \o "'")>>]}
    ELSE {IF s = "saved"
          THEN [ok |-> TRUE, val |-> filepath,
                disk |-> (filepath :> BuildDocument(company, order, t)) @@ dk,
                log |-> <<Ev("render", TRUE, filepath)>>]
          ELSE [ok |-> FALSE, exc |-> Exc(s, "[Errno 13] Permission denied: '" \o filepath \o "'"),
                disk |-> dk, log |-> <<Ev("render", FALSE, filepath)>>]
          : s \in SaveOutcomes}

\* ------------------------------------------------------------ the order source

\* self.shopify_config as __init__ builds it from app.py's config.
ShopifyConfig ==
    [shop_domain |-> "cshop.co", access_token |-> "shpat_tu_token", api_version |-> "2023-10"]

\* The orders the shop holds, by id: a complete order without a shipping
\* address, and an order whose body lacks line_items.
ShopOrders ==
    [id \in {"1001", "1003"} |->
        IF id = "1001"
        THEN [order_number |-> "#1001",
              created_at |-> [kind |-> "iso", y |-> 2024, m |-> 1, d |-> 31, suffix |-> "Z"],
              customer |-> [first_name |-> "Ana", last_name |-> "Ruiz",
                            email |-> "ana@example.com"],
              line_items |-> << [title |-> "Camiseta", price |-> 500000, quantity |-> 2],
                                [title |-> "Gorra", price |-> 1000000, quantity |-> 1] >>,
              subtotal_price |-> 2000000, total_tax |-> 0, total_price |-> 2000000]
        ELSE [order_number |-> "#1003",
              created_at |-> [kind |-> "iso", y |-> 2024, m |-> 1, d |-> 31, suffix |-> "Z"],
              subtotal_price |-> 500000, total_price |-> 500000]]

\* The order ids the callers use; "9999" is no order of the shop.
OrderIds == {"1001", "1003", "9999"}

OrderUrl(order_id) ==
    "https://" \o ShopifyConfig.shop_domain \o "/admin/api/" \o ShopifyConfig.api_version
    \o "/orders/" \o order_id \o ".json"

\* What requests.get(url) followed by raise_for_status() and json()['order']
\* may give: the order, an HTTP error status, no connection, or a body
\* without the key 'order'.
FetchReplies(order_id) ==
    (IF order_id \in DOMAIN ShopOrders
     THEN {[ok |-> TRUE, order |-> ShopOrders[order_id]]}
     ELSE {[ok |-> FALSE,
            exc |-> Exc("HTTPError", "404 Client Error: Not Found for url: " \o OrderUrl(order_id))]})
    \cup {[ok |-> FALSE, exc |-> Exc("ConnectionError", "Max retries exceeded with url: " \o OrderUrl(order_id))],
          [ok |-> FALSE, exc |-> Exc("KeyError", "'order'")]}

\* A client that asks again after a failed request.
get_shopify_order_retrying(order_id) ==
    {IF r.ok
     THEN [ok |-> TRUE, val |-> r.order, log |-> <<Ev("fetch", TRUE, OrderUrl(order_id))>>]
     ELSE [ok |-> FALSE, exc |-> r.exc,
           log |-> <<Ev("fetch", FALSE, r.exc.msg), Ev("fetch", FALSE, r.exc.msg)>>]
     : r \in FetchReplies(order_id)}

\* get_shopify_order(order_id): one GET; a RequestException is printed and
\* raised again, any other exception leaves the function as it is.
get_shopify_order(order_id) ==
    {IF r.ok
     THEN [ok |-> TRUE, val |-> r.order, log |-> <<Ev("fetch", TRUE, OrderUrl(order_id))>>]
     ELSE [ok |-> FALSE, exc |-> r.exc, log |-> <<Ev("fetch", FALSE, r.exc.msg)>>]
     : r \in FetchReplies(order_id)}

\* ------------------------------------------------------------- the cloud drive

\* The bearer tokens the token endpoint hands out (never an empty string).
Tokens == {"tokA", "tokB"}

\* What the POST to the token endpoint, raise_for_status() and
\* json()['access_token'] may give.
TokenReplies ==
    {[ok |-> TRUE, token |-> tk] : tk \in Tokens}
    \cup {[ok |-> FALSE, exc |-> Exc("HTTPError", "401 Client Error: Unauthorized for url: token")],
          [ok |-> FALSE, exc |-> Exc("KeyError", "'access_token'")]}

\* get_office_access_token(): stores the token in self.office_config and
\* returns it; on failure the configuration is left as it was.
get_office_access_token(cfg) ==
    {IF r.ok
     THEN [ok |-> TRUE, val |-> r.token,
           office_config |-> [cfg EXCEPT !.access_token = r.token],
           log |-> <<Ev("token", TRUE, r.token)>>]
     ELSE [ok |-> FALSE, exc |-> r.exc, office_config |-> cfg,
           log |-> <<Ev("token", FALSE, r.exc.msg)>>]
     : r \in TokenReplies}

\* What the PUT of the file, raise_for_status() and the reading of the
\* answer's id, webUrl and downloadUrl may give.
PutReplies(filename) ==
    {[ok |-> TRUE,
      info |-> [document_id |-> "id:" \o filename,
                web_url |-> "https://onedrive/" \o filename \o ".docx",
                download_url |-> "https://download/" \o filename \o ".docx"]],
     [ok |-> FALSE, exc |-> Exc("HTTPError", "401 Client Error: Unauthorized for url: upload")],
     [ok |-> FALSE, exc |-> Exc("KeyError", "'id'")]}

\* The token phase of upload_to_onedrive: an exchange only without a cached token.
TokenPhaseAlways(cfg) == get_office_access_token(cfg)

TokenPhase(cfg) ==
    IF ~Truthy(cfg.access_token)
    THEN get_office_access_token(cfg)
    ELSE {[ok |-> TRUE, val |-> cfg.access_token, office_config |-> cfg, log |-> <<>>]}

\* upload_to_onedrive(file_path, filename) on disk dk.
upload_to_onedrive(cfg, dk, file_path, filename) ==
    UNION {
        IF ~tp.ok THEN {tp}
        ELSE IF file_path \notin DOMAIN dk
        THEN {[ok |-> FALSE,
               exc |-> Exc("FileNotFoundError", "[Errno 2] No such file or directory: '" \o file_path \o "'"),
               office_config |-> tp.office_config, log |-> tp.log]}
        ELSE {IF r.ok
              THEN [ok |-> TRUE, val |-> r.info, office_config |-> tp.office_config,
                    log |-> tp.log \o <<Ev("put", TRUE, tp.office_config.access_token)>>]
              ELSE [ok |-> FALSE, exc |-> r.exc, office_config |-> tp.office_config,
                    log |-> tp.log \o <<Ev("put", FALSE, tp.office_config.access_token)>>]
              : r \in PutReplies(filename)}
        : tp \in TokenPhase(cfg)}

\* ------------------------------------------------------------ generate_invoice

\* A credential check with any() in the place of all().
CloudConfiguredAny(cfg) == \E k \in DOMAIN cfg : Truthy(cfg[k])

\* all(self.office_config.values()): every value of the dict, the cached
\* access_token among them.
CloudConfigured(cfg) == \A k \in DOMAIN cfg : Truthy(cfg[k])

\* What os.remove(path) may do.
RemoveReplies == {"removed", "PermissionError"}

Without(dk, path) == [q \in DOMAIN dk \ {path} |-> dk[q]]

\* The steps after the upload succeeded.
AfterUploadKeepsFile(result, dk, cfg, log, path, save_local) ==
    {[ok |-> TRUE,
      val |-> IF save_local THEN result ELSE [result EXCEPT !.local_file_path = None],
      office_config |-> cfg, disk |-> dk, log |-> log]}

AfterUpload(result, dk, cfg, log, path, save_local) ==
    IF save_local
    THEN {[ok |-> TRUE, val |-> result, office_config |-> cfg, disk |-> dk, log |-> log]}
    ELSE {IF rm = "removed"
          THEN [ok |-> TRUE, val |-> [result EXCEPT !.local_file_path = None],
                office_config |-> cfg, disk |-> Without(dk, path),
                log |-> log \o <<Ev("remove", TRUE, path)>>]
          ELSE [ok |-> FALSE,
                exc |-> Exc(rm, "[Errno 13] Permission denied: '" \o path \o "'"),
                office_config |-> cfg, disk |-> dk,
                log |-> log \o <<Ev("remove", FALSE, path)>>]
          : rm \in RemoveReplies}

\* The steps after the document was written to local_file_path.
AfterRender(cfg, dk, log, order, filename, local_file_path, save_local, upload_to_cloud) ==
    LET result == [success |-> TRUE,
                   order_number |-> order.order_number,
                   local_file_path |-> IF save_local THEN local_file_path ELSE None]
    IN  IF upload_to_cloud /\ CloudConfigured(cfg)
        THEN UNION {
                IF ~u.ok
                THEN {[ok |-> FALSE, exc |-> u.exc, office_config |-> u.office_config,
                       disk |-> dk, log |-> log \o u.log]}
                ELSE AfterUpload([cloud_info |-> u.val] @@ result, dk, u.office_config,
                                 log \o u.log, local_file_path, save_local)
                : u \in upload_to_onedrive(cfg, dk, local_file_path, filename)}
        ELSE {[ok |-> TRUE, val |-> result, office_config |-> cfg, disk |-> dk, log |-> log]}

\* The try block of generate_invoice.
GenerateInvoiceBody(cfg, dk, t, order_id, save_local, upload_to_cloud) ==
    UNION {
        IF ~f.ok
        THEN {[ok |-> FALSE, exc |-> f.exc, office_config |-> cfg, disk |-> dk, log |-> f.log]}
        ELSE IF "order_number" \notin DOMAIN f.val
        THEN {[ok |-> FALSE, exc |-> Exc("KeyError", "'order_number'"),
               office_config |-> cfg, disk |-> dk,
               log |-> f.log \o <<Ev("filename", FALSE, "'order_number'")>>]}
        ELSE LET filename == "Factura_" \o f.val.order_number \o "_" \o ToString(Timestamp(t)) IN
             UNION {
                IF ~r.ok
                THEN {[ok |-> FALSE, exc |-> r.exc, office_config |-> cfg,
                       disk |-> r.disk, log |-> f.log \o r.log]}
                ELSE AfterRender(cfg, r.disk, f.log \o r.log, f.val, filename, r.val,
                                 save_local, upload_to_cloud)
                : r \in create_word_document(CompanyInfo, dk, t, f.val, filename)}
        : f \in get_shopify_order(order_id)}

\* An except clause that names the network errors only.
GenerateInvoiceExceptNarrow == "RequestException"

\* The class the except clause of generate_invoice names.
GenerateInvoiceExcept == "Exception"

\* generate_invoice(order_id, save_local, upload_to_cloud): the try block,
\* and the except clause that turns an exception into {success: False, error}.
generate_invoice(cfg, dk, t, order_id, save_local, upload_to_cloud) ==
    {IF b.ok
     THEN [raised |-> FALSE, ret |-> b.val,
           office_config |-> b.office_config, disk |-> b.disk, log |-> b.log]
     ELSE IF Catches(GenerateInvoiceExcept, b.exc)
     THEN [raised |-> FALSE, ret |-> [success |-> FALSE, error |-> b.exc.msg],
           office_config |-> b.office_config, disk |-> b.disk, log |-> b.log]
     ELSE [raised |-> TRUE, exc |-> b.exc,
           office_config |-> b.office_config, disk |-> b.disk, log |-> b.log]
     : b \in GenerateInvoiceBody(cfg, dk, t, order_id, save_local, upload_to_cloud)}

\* -------------------------------------------------------------- the webhook

\* self.office_config of a generator built from app.py's config, which
\* holds no office_* key.
AppOfficeConfig ==
    [client_id |-> None, client_secret |-> None, tenant_id |-> None, access_token |-> None]

\* The JSON bodies POSTed to /webhook: orders by id, a body without id, no JSON.
WebhookBodies == {[id |-> 1001], [id |-> 9999], EmptyDict, NoneDict}

\* What of a generate_invoice outcome a caller sees.
Seen(o) ==
    IF o.raised THEN [raised |-> TRUE, exc |-> o.exc, log |-> o.log]
    ELSE [raised |-> FALSE, ret |-> o.ret, log |-> o.log]

\* handle_webhook(): a new generator per request, generate_invoice(str(id),
\* save_local=True, upload_to_cloud=False), 200 with whatever it returned;
\* 500 only from the except clause.
handle_webhook(dk, t, data) ==
    IF data = NoneDict
    THEN {[status |-> 500, body |-> [error |-> "'NoneType' object is not subscriptable"],
           disk |-> dk, called |-> FALSE]}
    ELSE IF "id" \notin DOMAIN data
    THEN {[status |-> 500, body |-> [error |-> "'id'"], disk |-> dk, called |-> FALSE]}
    ELSE {IF o.raised
          THEN [status |-> 500, body |-> [error |-> o.exc.msg],
                disk |-> o.disk, called |-> TRUE, inner |-> Seen(o)]
          ELSE [status |-> 200, body |-> [status |-> "Factura generada", path |-> o.ret],
                disk |-> o.disk, called |-> TRUE, inner |-> Seen(o)]
          : o \in generate_invoice(AppOfficeConfig, dk, t, ToString(data.id), TRUE, FALSE)}

\* ----------------------------------------------------------------- Spec

NoCall == [op |-> "none"]

\* The office_* settings a generator may be built with: all three given, one
\* of them not given (None), one of them empty, or none given (as in app.py).
OfficeConfigs ==
    {[client_id |-> "client", client_secret |-> "secret", tenant_id |-> "tenant",
      access_token |-> None],
     [client_id |-> None, client_secret |-> "secret", tenant_id |-> "tenant",
      access_token |-> None],
     [client_id |-> "client", client_secret |-> "", tenant_id |-> "tenant",
      access_token |-> None],
     [client_id |-> "client", client_secret |-> "secret", tenant_id |-> None,
      access_token |-> None],
     [client_id |-> "client", client_secret |-> "secret", tenant_id |-> "",
      access_token |-> None],
     AppOfficeConfig}

\* The state after ShopifyInvoiceGenerator(config).
Init ==
    /\ office_config \in OfficeConfigs
    /\ disk = EmptyDict
    /\ now = [day |-> 0, sec |-> 0]
    /\ last = NoCall

\* A second passes.
Tick ==
    /\ now.sec < MaxTicks
    /\ now' = [now EXCEPT !.sec = @ + 1]
    /\ UNCHANGED <<office_config, disk, last>>

\* generator.generate_invoice(order_id, save_local, upload_to_cloud)
CallGenerateInvoice ==
    \E order_id \in OrderIds, save_local \in BOOLEAN, upload_to_cloud \in BOOLEAN :
      \E o \in generate_invoice(office_config, disk, now, order_id, save_local, upload_to_cloud) :
        /\ office_config' = o.office_config
        /\ disk' = o.disk
        /\ last' = [op |-> "generate_invoice", order_id |-> order_id,
                    save_local |-> save_local, upload_to_cloud |-> upload_to_cloud,
                    pre |-> office_config, pre_disk |-> disk, out |-> Seen(o)]
        /\ UNCHANGED now

\* generator.get_office_access_token()
CallGetOfficeAccessToken ==
    \E o \in get_office_access_token(office_config) :
        /\ office_config' = o.office_config
        /\ last' = [op |-> "get_office_access_token", pre |-> office_config,
                    ok |-> o.ok, log |-> o.log]
        /\ UNCHANGED <<disk, now>>

\* generator.upload_to_onedrive(file_path, filename) on a file of the disk,
\* or on a path that is no file.
CallUploadToOnedrive ==
    \E file_path \in DOMAIN disk \cup {"perdido.docx"} :
      \E o \in upload_to_onedrive(office_config, disk, file_path, "copia") :
        /\ office_config' = o.office_config
        /\ last' = [op |-> "upload_to_onedrive", file_path |-> file_path,
                    pre |-> office_config, ok |-> o.ok, log |-> o.log]
        /\ UNCHANGED <<disk, now>>

\* POST /webhook
HandleWebhook ==
    \E data \in WebhookBodies :
      \E w \in handle_webhook(disk, now, data) :
        /\ disk' = w.disk
        /\ last' = IF w.called
                   THEN [op |-> "handle_webhook", called |-> TRUE,
                         order_id |-> ToString(data.id),
                         save_local |-> TRUE, upload_to_cloud |-> FALSE,
                         pre |-> AppOfficeConfig, pre_disk |-> disk, out |-> w.inner,
                         response |-> [status |-> w.status, body |-> w.body]]
                   ELSE [op |-> "handle_webhook", called |-> FALSE, pre_disk |-> disk,
                         response |-> [status |-> w.status, body |-> w.body]]
        /\ UNCHANGED <<office_config, now>>

Next ==
    \/ Tick
    \/ CallGenerateInvoice
    \/ CallGetOfficeAccessToken
    \/ CallUploadToOnedrive
    \/ HandleWebhook

Spec == Init /\ [][Next]_vars

\* ------------------------------------------------ the orders of SpecRender

IsoDate(y, m, d, suffix) == [kind |-> "iso", y |-> y, m |-> m, d |-> d, suffix |-> suffix]

\* created_at values: the clock's first day, other days (month and year ends),
\* a date no calendar has, and a string that is no timestamp.
CreatedAts ==
    {IsoDate(2024, 1, 31, "Z"), IsoDate(2024, 1, 30, "-05:00"), IsoDate(2023, 12, 15, "Z"),
     IsoDate(2024, 2, 30, "Z"), [kind |-> "text", text |-> "ayer"]}

Address ==
    [first_name |-> "Ana", last_name |-> "Ruiz", address1 |-> "Calle 1 # 2-3",
     city |-> "Cali", province |-> "Valle", zip |-> "760001", country |-> "Colombia"]

AddressFrags ==
    {EmptyDict, [shipping_address |-> NoneDict], [shipping_address |-> Address],
     [shipping_address |-> Address @@ [address2 |-> "Apto 4"]]}

Customer == [first_name |-> "Ana", last_name |-> "Ruiz", email |-> "ana@example.com"]

\* Amounts in cents.
TaxFrags == {EmptyDict, [total_tax |-> 0], [total_tax |-> 1900050]}

ShipFrags ==
    {EmptyDict,
     [total_shipping_price_set |-> EmptyDict],
     [total_shipping_price_set |-> [shop_money |-> EmptyDict]],
     [total_shipping_price_set |-> [shop_money |-> [amount |-> 0]]],
     [total_shipping_price_set |-> [shop_money |-> [amount |-> 800000]]]}

\* Unit prices are whole pesos, so that price * quantity is exact as a float.
Item1 == [title |-> "Camiseta", variant_title |-> "M / Azul", sku |-> "CAM-01",
          price |-> 500000, quantity |-> 2]

Item2 == [title |-> "Gorra", price |-> 1000000, quantity |-> 1]

ItemsFrags ==
    {EmptyDict, [line_items |-> <<>>], [line_items |-> <<Item1, Item2>>],
     [line_items |-> <<[title |-> "Gorra", quantity |-> 1]>>]}

\* (subtotal, total) pairs: the total is not always the sum of the parts.
PricePairs == {<<2000000, 2000000>>, <<10000000, 12700050>>, <<123456750, 99>>}

RenderOrders ==
    {[order_number |-> "1001", created_at |-> c, customer |-> Customer,
      subtotal_price |-> p[1], total_price |-> p[2]] @@ a @@ tx @@ sh @@ it
     : c \in CreatedAts, a \in AddressFrags, tx \in TaxFrags, sh \in ShipFrags,
       it \in ItemsFrags, p \in PricePairs}

\* The rendering days of SpecRender, in days after StartDate.
RenderDays == {0, 1, 320, 366}

\* -------------------------------------------------------------- SpecRender

InitRender ==
    /\ office_config = AppOfficeConfig
    /\ disk = EmptyDict
    /\ now \in [day : RenderDays, sec : {0}]
    /\ last = NoCall

\* One call of create_word_document on a fresh generator.
CallCreateWordDocument ==
    /\ last = NoCall
    /\ \E order \in RenderOrders :
         \E out \in create_word_document(CompanyInfo, disk, now, order, "Factura_1001") :
            /\ disk' = out.disk
            /\ last' = [op |-> "create_word_document", order |-> order,
                        ok |-> out.ok, log |-> out.log,
                        ret |-> IF out.ok THEN out.val ELSE None,
                        exc |-> IF out.ok THEN Exc("", "") ELSE out.exc]
    /\ UNCHANGED <<office_config, now>>

NextRender == CallCreateWordDocument

SpecRender == InitRender /\ [][NextRender]_vars

\* ------------------------------------------------------------------ claims
\* What the formulas below read off the last call.

\* The last call ran generate_invoice: directly, or inside the webhook handler.
HasGen == last.op = "generate_invoice" \/ (last.op = "handle_webhook" /\ last.called)

\* The entries of a log that are about one stage.
Events(log, stage) == SelectSeq(log, LAMBDA e : e.stage = stage)

GenLog == last.out.log

\* Some stage of the last generate_invoice raised.
SomeStageRaised == \E i \in 1..Len(GenLog) : ~GenLog[i].ok

FetchFailed == Events(GenLog, "fetch") # <<>> /\ ~Events(GenLog, "fetch")[1].ok

RenderOk == Events(GenLog, "render") # <<>> /\ Events(GenLog, "render")[1].ok

\* The path of the file the last generate_invoice rendered.
RenderedPath == Events(GenLog, "render")[1].info

PutOk == \E i \in 1..Len(GenLog) : GenLog[i].stage = "put" /\ GenLog[i].ok

RemoveOk == \E i \in 1..Len(GenLog) : GenLog[i].stage = "remove" /\ GenLog[i].ok

RemoveFailed == \E i \in 1..Len(GenLog) : GenLog[i].stage = "remove" /\ ~GenLog[i].ok

Returned == ~last.out.raised

\* Client id, client secret and tenant id are all configured (non-empty).
CloudConfiguredCredsOnly(cfg) ==
    Truthy(cfg.client_id) /\ Truthy(cfg.client_secret) /\ Truthy(cfg.tenant_id)

Succeeded == Returned /\ last.out.ret.success

\* C1: generate_invoice never raises to its caller.  If any stage raised
\* (fetch, file name, rendering, token exchange, upload, deletion) it returns
\* success = false with an error message; if none did it returns success =
\* true with the order number.
C1_NeverRaises ==
    HasGen =>
        /\ Returned
        /\ last.out.ret.success = ~SomeStageRaised
        /\ SomeStageRaised =>
              /\ DOMAIN last.out.ret = {"success", "error"}
              /\ Truthy(last.out.ret.error)
        /\ ~SomeStageRaised =>
              last.out.ret.order_number = ShopOrders[last.order_id].order_number

\* C1's case: the last of the stages, the deletion, raised.
C1_Witness == HasGen /\ RemoveFailed /\ Returned /\ ~last.out.ret.success

\* C2: with client id, client secret and tenant id all configured, every
\* generate_invoice(upload_to_cloud = true) whose fetch and render succeed
\* attempts the upload, and a successful upload puts cloud_info in the
\* result; on the first call of a fresh generator as on later ones.
C2_UploadWhenConfigured ==
    (/\ last.op = "generate_invoice"
     /\ last.upload_to_cloud
     /\ CloudConfiguredCredsOnly(last.pre)
     /\ RenderOk)
    => /\ Events(GenLog, "token") # <<>> \/ Events(GenLog, "put") # <<>>
       /\ PutOk => (Returned /\ "cloud_info" \in DOMAIN last.out.ret)

\* C3: the webhook handler answers 200 with {status, path} only when the
\* orchestrator succeeded, and answers 500 with {error: message} whenever
\* generate_invoice reported success = false.
C3_WebhookMapsFailure ==
    last.op = "handle_webhook" =>
        /\ last.response.status = 200 =>
              /\ last.called /\ Succeeded
              /\ DOMAIN last.response.body = {"status", "path"}
        /\ (last.called /\ Returned /\ ~last.out.ret.success) =>
              /\ last.response.status = 500
              /\ DOMAIN last.response.body = {"error"}
              /\ last.response.body.error = last.out.ret.error

\* C4: when the order fetch fails, generate_invoice made exactly one fetch
\* attempt, rendered nothing, uploaded nothing, left the disk as it was, and
\* returns success = false with the upstream failure as the error message.
C4_FetchFailure ==
    (HasGen /\ FetchFailed) =>
        /\ Len(Events(GenLog, "fetch")) = 1
        /\ Len(GenLog) = 1
        /\ disk = last.pre_disk
        /\ Returned
        /\ ~last.out.ret.success
        /\ last.out.ret.error = GenLog[1].info

\* C4's case: the order source answered 404.
C4_Witness ==
    /\ HasGen /\ FetchFailed
    /\ last.order_id = "9999"
    /\ last.out.ret.error =
         "404 Client Error: Not Found for url: https://cshop.co/admin/api/2023-10/orders/9999.json"

\* C5: generate_invoice(upload_to_cloud = true) with client id, client secret
\* or tenant id missing or empty attempts no token exchange and no upload,
\* returns a result without cloud_info, and leaves the rendered file on the
\* disk, whatever save_local is.
C5_SkipWhenIncomplete ==
    (/\ HasGen
     /\ last.upload_to_cloud
     /\ ~CloudConfiguredCredsOnly(last.pre)
     /\ RenderOk)
    => /\ Events(GenLog, "token") = <<>>
       /\ Events(GenLog, "put") = <<>>
       /\ Succeeded
       /\ "cloud_info" \notin DOMAIN last.out.ret
       /\ RenderedPath \in DOMAIN disk

\* C5's case: a credential is missing, a token is cached all the same, and
\* the caller does not want the local file.
C5_Witness ==
    /\ last.op = "generate_invoice"
    /\ last.upload_to_cloud /\ ~last.save_local
    /\ ~CloudConfiguredCredsOnly(last.pre)
    /\ Truthy(last.pre.access_token)
    /\ RenderOk

\* The rendered file is gone and the result says so.
Deleted ==
    /\ RenderedPath \notin DOMAIN disk
    /\ Succeeded
    /\ last.out.ret.local_file_path = None

HasUploadLog == last.op \in {"upload_to_onedrive", "generate_invoice"}

UploadLog == IF last.op = "upload_to_onedrive" THEN last.log ELSE last.out.log

\* C8: upload_to_onedrive exchanges credentials for a token only when none is
\* cached at its start; a successful exchange stores the token and the upload
\* (and every later one) sends the cached token without a further exchange;
\* a failed exchange leaves the cache empty and fails the upload before the
\* file is sent.
C8_TokenCache ==
    HasUploadLog =>
        LET tok == Events(UploadLog, "token")
            put == Events(UploadLog, "put")
        IN  /\ Len(tok) <= 1
            /\ tok # <<>> => ~Truthy(last.pre.access_token)
            /\ (last.op = "upload_to_onedrive" /\ ~Truthy(last.pre.access_token)) => tok # <<>>
            /\ Truthy(last.pre.access_token) =>
                  /\ office_config.access_token = last.pre.access_token
                  /\ \A i \in 1..Len(put) : put[i].info = last.pre.access_token
            /\ (tok # <<>> /\ tok[1].ok) =>
                  /\ office_config.access_token = tok[1].info
                  /\ \A i \in 1..Len(put) : put[i].info = tok[1].info
            /\ (tok # <<>> /\ ~tok[1].ok) =>
                  /\ office_config = last.pre
                  /\ ~Truthy(office_config.access_token)
                  /\ put = <<>>
                  /\ last.op = "upload_to_onedrive" => ~last.ok

\* C8's case: an upload that found a token cached and sent the file with it.
C8_Witness ==
    /\ last.op = "upload_to_onedrive"
    /\ Truthy(last.pre.access_token)
    /\ last.ok
    /\ Events(last.log, "put") # <<>>

\* C10: the result describes the disk.  On success local_file_path is
\* non-null exactly when the rendered file still exists; on failure no file
\* rendered by the call is left on the disk.
C10_ResultDescribesDisk ==
    (HasGen /\ RenderOk /\ Returned) =>
        /\ last.out.ret.success =>
              ((last.out.ret.local_file_path # None) <=> (RenderedPath \in DOMAIN disk))
        /\ ~last.out.ret.success => RenderedPath \notin DOMAIN disk

\* ------------------------------------------------- claims about the rendering
\* Read off the one create_word_document call of SpecRender.

Rendered == last.op = "create_word_document" /\ last.ok

RenderedDoc == disk[last.ret]

\* The calendar, a day at a time.
TomorrowOf(dt) ==
    IF dt.d < DaysInMonth(dt.y, dt.m) THEN [dt EXCEPT !.d = dt.d + 1]
    ELSE IF dt.m < 12 THEN [y |-> dt.y, m |-> dt.m + 1, d |-> 1]
    ELSE [y |-> dt.y + 1, m |-> 1, d |-> 1]

RECURSIVE DaysLater(_, _)
DaysLater(dt, n) == IF n = 0 THEN dt ELSE DaysLater(TomorrowOf(dt), n - 1)

CreatedDate == [y |-> last.order.created_at.y, m |-> last.order.created_at.m,
                d |-> last.order.created_at.d]

\* C7 as written: the due date of the header is the order's creation date
\* plus 30 calendar days, whatever the day of rendering.
C7_DueDateFromCreation ==
    (Rendered /\ IsoParses(last.order.created_at)) =>
        RenderedDoc.invoice[4] = "Vencimiento: " \o StrfDate(DaysLater(CreatedDate, 30))

\* C7: the due date of the header is the day of rendering plus 30 calendar
\* days, for every order and whatever its creation date.
C7_DueDateFromRenderDay ==
    Rendered =>
        RenderedDoc.invoice[4] = "Vencimiento: " \o StrfDate(DaysLater(Today(now), 30))

\* C7's case: an order of 15/12/2023 rendered on 16/12/2024.
C7_Witness ==
    /\ Rendered
    /\ last.order.created_at = IsoDate(2023, 12, 15, "Z")
    /\ now.day = 320
    /\ RenderedDoc.invoice[4] = "Vencimiento: 15/01/2025"

\* The shipping amount: 0 unless the order has the whole money object.
ShippingOf(order) ==
    IF /\ "total_shipping_price_set" \in DOMAIN order
       /\ "shop_money" \in DOMAIN order.total_shipping_price_set
       /\ "amount" \in DOMAIN order.total_shipping_price_set.shop_money
    THEN order.total_shipping_price_set.shop_money.amount
    ELSE 0

TaxOf(order) == IF "total_tax" \in DOMAIN order THEN order.total_tax ELSE 0

\* The lines of the rendered totals block.
TotalsLines == SelectSeq(RenderedDoc.totals, LAMBDA line : line # "")

\* C9: the totals block holds, in this order, Subtotal always, Envío iff the
\* shipping amount is > 0 (no money object counts as 0), Impuestos iff the
\* tax is > 0, and TOTAL always, with the order's total_price and not the
\* sum of the other three.
C9_TotalsBlock ==
    Rendered =>
        TotalsLines =
            <<"Subtotal: " \o format_currency(last.order.subtotal_price)>>
            \o (IF ShippingOf(last.order) > 0
                THEN <<"Envío: " \o format_currency(ShippingOf(last.order))>> ELSE <<>>)
            \o (IF TaxOf(last.order) > 0
                THEN <<"Impuestos: " \o format_currency(TaxOf(last.order))>> ELSE <<>>)
            \o <<"TOTAL: " \o format_currency(last.order.total_price)>>

\* C9's case: a shipping set without its money object, a tax, and a total
\* that is not the sum of the parts.
C9_Witness ==
    /\ Rendered
    /\ "total_shipping_price_set" \in DOMAIN last.order
    /\ "shop_money" \notin DOMAIN last.order.total_shipping_price_set
    /\ TaxOf(last.order) > 0
    /\ last.order.total_price # last.order.subtotal_price + TaxOf(last.order)
    /\ TotalsLines = <<"Subtotal: $1,234,568 COP", "Impuestos: $19,000 COP", "TOTAL: $1 COP">>

====
